---- MODULE Spec2Model ----
(***************************************************************************)
(* A model of src/src/exception.ts: the scope registry, the enum() proxy   *)
(* factory, the message template engine and the cast engine.               *)
(*                                                                         *)
(* JavaScript strings are sequences of one-character strings, so that      *)
(* includes / indexOf / slice / replace / split are computed, not assumed. *)
(* The value undefined, where a string may be absent, is the one-element   *)
(* sequence UNDEFINED, whose element is no character.                      *)
(***************************************************************************)
EXTENDS Integers, Sequences, FiniteSets, TLC

\* ======================= bounds =======================

MaxHandles == 2
MaxReq == 3
MaxInst == 2

\* ======================= JavaScript strings =======================

UNDEFINED == <<"undefined">>

\* String.prototype.startsWith at position i (0-based)
MatchAt(s, sub, i) ==
  /\ i >= 0
  /\ i + Len(sub) <= Len(s)
  /\ \A k \in 1..Len(sub) : s[i + k] = sub[k]

\* the least (greatest) element of a set of integers, or d when it is empty
MinOr(S, d) == IF S = {} THEN d ELSE CHOOSE i \in S : \A j \in S : i <= j

MaxOr(S, d) == IF S = {} THEN d ELSE CHOOSE i \in S : \A j \in S : i >= j

\* String.prototype.indexOf: 0-based index of the first occurrence, or -1
IndexOf(s, sub) == MinOr({i \in 0..Len(s) : MatchAt(s, sub, i)}, -1)

\* String.prototype.lastIndexOf: 0-based index of the last occurrence, or -1
LastIndexOf(s, sub) == MaxOr({i \in 0..Len(s) : MatchAt(s, sub, i)}, -1)

\* String.prototype.includes
Includes(s, sub) == IndexOf(s, sub) # -1

\* the clamping of a relative index done by String.prototype.slice
SliceIndex(n, len) ==
  IF n < 0 THEN (IF len + n < 0 THEN 0 ELSE len + n)
  ELSE (IF n > len THEN len ELSE n)

\* String.prototype.slice(from, to)
Slice(s, from, to) ==
  IF SliceIndex(from, Len(s)) >= SliceIndex(to, Len(s)) THEN <<>>
  ELSE SubSeq(s, SliceIndex(from, Len(s)) + 1, SliceIndex(to, Len(s)))

\* String.prototype.slice(from)
SliceFrom(s, from) == Slice(s, from, Len(s))

\* the expansion of the replacement text done by String.prototype.replace
\* when the pattern is a string (no captures): $$ is $, $& the match,
\* $` the text before the match, $' the text after it; any other $ is kept.
RECURSIVE GetSubstitution(_, _, _, _)
GetSubstitution(matched, str, position, replacement) ==
  IF \A k \in 1..Len(replacement) : replacement[k] # "$" THEN replacement
  ELSE IF Head(replacement) = "$" /\ Len(replacement) >= 2
    THEN (CASE replacement[2] = "$" -> <<"$">>
            [] replacement[2] = "&" -> matched
            [] replacement[2] = "`" -> Slice(str, 0, position)
            [] replacement[2] = "'" -> SliceFrom(str, position + Len(matched))
            [] OTHER -> <<"$", replacement[2]>>)
           \o GetSubstitution(matched, str, position,
                              SubSeq(replacement, 3, Len(replacement)))
    ELSE <<Head(replacement)>>
           \o GetSubstitution(matched, str, position, Tail(replacement))

\* String.prototype.replace(pattern, replacement), both strings: the first
\* occurrence of the pattern only
ReplaceAt(s, pattern, replacement, pos) ==
  IF pos = -1 THEN s
  ELSE Slice(s, 0, pos)
         \o GetSubstitution(pattern, s, pos, replacement)
         \o SliceFrom(s, pos + Len(pattern))

Replace(s, pattern, replacement) ==
  ReplaceAt(s, pattern, replacement, IndexOf(s, pattern))

\* Array.prototype.join of an array of strings
RECURSIVE Join(_, _)
Join(parts, sep) ==
  IF parts = <<>> THEN <<>>
  ELSE IF Len(parts) = 1 THEN parts[1]
  ELSE parts[1] \o sep \o Join(Tail(parts), sep)

\* String.prototype.split on a non-empty separator
RECURSIVE Split(_, _)
Split(s, sep) ==
  IF IndexOf(s, sep) = -1 THEN <<s>>
  ELSE <<Slice(s, 0, IndexOf(s, sep))>>
         \o Split(SliceFrom(s, IndexOf(s, sep) + Len(sep)), sep)

IsSpace(c) == c \in {" ", "\n", "\t"}

\* String.prototype.trim
RECURSIVE TrimStart(_)
TrimStart(s) ==
  IF s # <<>> /\ IsSpace(Head(s)) THEN TrimStart(Tail(s)) ELSE s

RECURSIVE TrimEnd(_)
TrimEnd(s) ==
  IF s # <<>> /\ IsSpace(s[Len(s)]) THEN TrimEnd(SubSeq(s, 1, Len(s) - 1)) ELSE s

Trim(s) == TrimEnd(TrimStart(s))

\* the truthiness of a string-or-undefined value
Truthy(v) == v # UNDEFINED /\ v # <<>>


\* ======================= string literals of the source =======================

S_label == <<"$", "l", "a", "b", "e", "l">>
S_error == <<"$", "e", "r", "r", "o", "r">>
S_message == <<"$", "m", "e", "s", "s", "a", "g", "e">>
S_file == <<"$", "f", "i", "l", "e">>
S_global == <<"g", "l", "o", "b", "a", "l">>
S_scope == <<"s", "c", "o", "p", "e">>
S_length == <<"l", "e", "n", "g", "t", "h">>
S_Exception == <<"E", "x", "c", "e", "p", "t", "i", "o", "n">>
S_Error == <<"E", "r", "r", "o", "r">>

\* ======================= globals =======================

\* const conf = globalConfig: the configuration object every helper reads
conf ==
  [template |-> << <<"[">> \o S_label \o <<"]", " ">>,
                   S_error,
                   <<":", " ">> \o S_message,
                   <<" ", "(">> \o S_file \o <<")">> >>,
   maxScopedDefs |-> 100,
   encoding |-> "json",
   delimiter |-> <<" ">>]

\* import.meta.dirname of the module, the root getRelativePath strips
Dirname == <<"/", "r">>

\* ======================= JavaScript values =======================

VStr(s) == [t |-> "string", s |-> s]
VUndef == [t |-> "undefined"]
VNull == [t |-> "null"]
VNum(n) == [t |-> "number", n |-> n]
VBool(b) == [t |-> "boolean", b |-> b]
\* a native Error object and its message
VErr(m) == [t |-> "error", message |-> m]
\* a reference to the Exception instance at index i of the heap
VInst(i) == [t |-> "instance", i |-> i]
\* a plain object: its message property (UNDEFINED when it has none) and
\* whether it holds a reference to itself
VObj(m, circ) == [t |-> "object", message |-> m, circular |-> circ]

Digits == <<"0", "1", "2", "3", "4", "5", "6", "7", "8", "9">>

\* Number.prototype.toString of an integer
RECURSIVE NumToStr(_)
NumToStr(n) ==
  IF n < 0 THEN <<"-">> \o NumToStr(-n)
  ELSE IF n < 10 THEN <<Digits[n + 1]>>
  ELSE NumToStr(n \div 10) \o <<Digits[(n % 10) + 1]>>

IsDigit(c) == \E d \in 1..10 : Digits[d] = c

DigitVal(c) == (CHOOSE d \in 1..10 : Digits[d] = c) - 1

RECURSIVE DecimalVal(_)
DecimalVal(s) ==
  IF s = <<>> THEN 0 ELSE DecimalVal(SubSeq(s, 1, Len(s) - 1)) * 10 + DigitVal(s[Len(s)])

\* a number that is no integer: m * 10^x with x < 0 and m no multiple of 10
VDec(m, x) == [t |-> "number", m |-> m, x |-> x]
\* Infinity (sign 1) and -Infinity (sign -1)
VInf(sign) == [t |-> "number", inf |-> sign]

RECURSIVE Pow10(_)
Pow10(x) == IF x <= 0 THEN 1 ELSE 10 * Pow10(x - 1)

RECURSIVE Zeros(_)
Zeros(k) == IF k <= 0 THEN <<>> ELSE <<"0">> \o Zeros(k - 1)

\* the text of the digits ds of a number that is no integer, its decimal
\* point being after the n-th digit
DecText(ds, n) ==
  IF n > 0 THEN SubSeq(ds, 1, n) \o <<".">> \o SubSeq(ds, n + 1, Len(ds))
  ELSE IF n > -6 THEN <<"0", ".">> \o Zeros(-n) \o ds
  ELSE <<Head(ds)>> \o (IF Len(ds) > 1 THEN <<".">> \o Tail(ds) ELSE <<>>)
         \o <<"e", "-">> \o NumToStr(1 - n)

\* Number.prototype.toString, for integers below 10^21
NumberText(v) ==
  IF "inf" \in DOMAIN v
    THEN (IF v.inf < 0 THEN <<"-">> ELSE <<>>) \o <<"I", "n", "f", "i", "n", "i", "t", "y">>
  ELSE IF "n" \in DOMAIN v THEN NumToStr(v.n)
  ELSE (IF v.m < 0 THEN <<"-">> ELSE <<>>)
         \o DecText(NumToStr(IF v.m < 0 THEN -v.m ELSE v.m),
                    Len(NumToStr(IF v.m < 0 THEN -v.m ELSE v.m)) + v.x)

\* JSON.stringify of a number: null for an infinity
JsonNumber(v) ==
  IF "inf" \in DOMAIN v THEN <<"n", "u", "l", "l">> ELSE NumberText(v)

\* the quoting of a string by JSON.stringify
RECURSIVE JsonEscape(_)
JsonEscape(s) ==
  IF s = <<>> THEN <<>>
  ELSE (CASE Head(s) = "\"" -> <<"\\", "\"">>
          [] Head(s) = "\\" -> <<"\\", "\\">>
          [] Head(s) = "\n" -> <<"\\", "n">>
          [] Head(s) = "\t" -> <<"\\", "t">>
          [] OTHER -> <<Head(s)>>) \o JsonEscape(Tail(s))

JsonString(s) == <<"\"">> \o JsonEscape(s) \o <<"\"">>

JsonField(key, text) == JsonString(key) \o <<":">> \o text

\* ======================= helpers =======================

\* Object.entries of the record the ScopedException constructor passes to
\* interpolateTemplate: $label, $message, $error, $file, in this order
TemplateVars(label, message, error, file) ==
  << <<S_label, label>>, <<S_message, message>>, <<S_error, error>>, <<S_file, file>> >>

\* items.find(([varKey]) => block.includes(varKey)): the index of the first
\* entry whose key occurs in the block, 0 when there is none
FindVar(items, block) ==
  MinOr({i \in 1..Len(items) : Includes(block, items[i][1])}, 0)

\* what the map callback makes of a block whose entry is items[i]: the
\* sequence holding the rendered block, or the empty sequence when the block
\* is dropped (the callback returns undefined and the filter removes it)
RenderFound(items, block, i) ==
  IF i = 0 \/ ~Truthy(items[i][2]) THEN <<>>
  ELSE <<Replace(block, items[i][1], items[i][2])>>

RenderBlock(items, block) == RenderFound(items, block, FindVar(items, block))

RECURSIVE RenderBlocks(_, _)
RenderBlocks(items, blocks) ==
  IF blocks = <<>> THEN <<>>
  ELSE RenderBlock(items, Head(blocks)) \o RenderBlocks(items, Tail(blocks))

interpolateTemplate(vars) == Join(RenderBlocks(vars, conf.template), <<>>)

\* filePath.slice(filePath.lastIndexOf('/') + 1)
FileNameOfPath(filePath) == SliceFrom(filePath, LastIndexOf(filePath, <<"/">>) + 1)

\* infoString.slice(0, lineNumIndex - 1), lineNumIndex = indexOf(':') + 1
FilePathOfInfo(infoString) == Slice(infoString, 0, (IndexOf(infoString, <<":">>) + 1) - 1)

\* getStackInfo(stack)?.fileName, UNDEFINED when the stack is absent or empty
getStackInfoFileName(stack) ==
  IF ~Truthy(stack) THEN UNDEFINED
  ELSE FileNameOfPath(FilePathOfInfo(
         Slice(stack, LastIndexOf(stack, <<"(">>) + 1, LastIndexOf(stack, <<")">>))))

\* the while loop of getRelativePath: the length of the common prefix
RECURSIVE CommonPrefix(_, _, _)
CommonPrefix(parts1, parts2, i) ==
  IF i < Len(parts1) /\ i < Len(parts2) /\ parts1[i + 1] = parts2[i + 1]
    THEN CommonPrefix(parts1, parts2, i + 1)
    ELSE i

TrimAll(parts) == [k \in 1..Len(parts) |-> Trim(parts[k])]

UniquePart(parts1, parts2) ==
  Join(SubSeq(parts2, CommonPrefix(parts1, parts2, 0) + 1, Len(parts2)), <<"/">>)

getRelativePath(fullPath) ==
  UniquePart(TrimAll(Split(Dirname, <<"/">>)), Split(fullPath, <<"/">>))

\* the filter of getStackFrames
IsFrameLine(line) ==
  \/ Includes(line, <<".", "t", "s", ":">>)
  \/ Includes(line, <<".", "j", "s", ":">>)
  \/ (Includes(line, <<"/">>) /\ Includes(line, <<".">>) /\ Includes(line, <<":">>))

RECURSIVE FilterFrameLines(_)
FilterFrameLines(lines) ==
  IF lines = <<>> THEN <<>>
  ELSE (IF IsFrameLine(Head(lines)) THEN <<Head(lines)>> ELSE <<>>)
         \o FilterFrameLines(Tail(lines))

\* the two maps of getStackFrames on one line: the relativePath of its frame
FrameRelativePath(line) ==
  getRelativePath(
    Split(Replace(Trim(SliceFrom(line, IndexOf(line, <<"/">>))), <<")">>, <<>>),
          <<":">>)[1])

MapFrames(lines) == [k \in 1..Len(lines) |-> FrameRelativePath(lines[k])]

\* the relativePath of every frame getStackFrames returns
getStackFrames(stack) == MapFrames(FilterFrameLines(Split(stack, <<"\n">>)))

\* lastStackFrame?.relativePath ?? 'global', lastStackFrame = stackFrames.pop()
ScopeNameOf(stackFrames) ==
  IF stackFrames = <<>> THEN S_global ELSE stackFrames[Len(stackFrames)]

\* a variant that leaves the label out of the key; C30 must not survive it
JoinLabelLeftOut(labelName, scopeName) == scopeName

\* labelName ? [labelName, scopeName].join(':') : scopeName
JoinLabel(labelName, scopeName) ==
  IF Truthy(labelName) THEN Join(<<labelName, scopeName>>, <<":">>) ELSE scopeName

\* the scope key defineScopedExcption registers under: the relative path of
\* the last stack frame (or 'global'), prefixed by the label when it is truthy
labeledScopeName(labelName, stack) ==
  JoinLabel(labelName,
            ScopeNameOf(getStackFrames(IF stack = UNDEFINED THEN <<>> ELSE stack)))


\* ======================= inputs =======================

\* the stack texts the platform hands out: a stack with no frame line, and
\* stacks whose last frame lies in /r/t.ts or /r/u.ts
StackNoFrame == <<"E">>
StackT == <<"E", "\n", " ", "a", "t", " ", "f", " ",
            "(", "/", "r", "/", "t", ".", "t", "s", ":", "1", ":", "2", ")">>
StackU == <<"E", "\n", " ", "a", "t", " ", "f", " ",
            "(", "/", "r", "/", "u", ".", "t", "s", ":", "1", ":", "2", ")">>
Stacks == {StackNoFrame, StackT}

Labels == {UNDEFINED, <<"L">>}

\* property keys that are symbols (Symbol.iterator and the like)
SYMBOL == <<"symbol">>

Names == {<<"A">>, <<"B">>, <<"4", "0", "4">>}
Props == Names \cup {S_scope, S_length, SYMBOL}

\* ======================= state =======================

VARIABLES
  globalConfig, \* let globalConfig: the configuration object bound at present
  defs,      \* globalDefinitions: scope key -> Map(name -> class), a Map being
             \* the sequence of its entries [k, v] in insertion order
  classes,   \* the ScopedException classes created so far; class 0 is Exception
  handles,   \* one entry per Exception.enum() call: its label and its localScope
  insts,     \* the heap of Exception instances
  call,      \* the operation executed last
  ret,       \* what it returned
  log,       \* history: [h, scope, name, cls] of every kind requested so far
  nreq,      \* the number of property accesses made so far
  pending    \* the request that has looked its name up and not inserted yet

vars == <<globalConfig, defs, classes, handles, insts, call, ret, log, nreq, pending>>

\* no request is between its lookup and its insert, and none has been
NoPending == [slot |-> <<>>, interleaved |-> FALSE]

\* ----- Map -----

MapHas(m, k) == \E i \in 1..Len(m) : m[i].k = k

MapGet(m, k) == m[CHOOSE i \in 1..Len(m) : m[i].k = k].v

\* Map.prototype.set: a present key keeps its position
MapSet(m, k, v) ==
  IF MapHas(m, k)
    THEN [i \in 1..Len(m) |-> IF m[i].k = k THEN [k |-> k, v |-> v] ELSE m[i]]
    ELSE Append(m, [k |-> k, v |-> v])

MapKeys(m) == [i \in 1..Len(m) |-> m[i].k]

MapValues(m) == [i \in 1..Len(m) |-> m[i].v]

\* ----- results -----

VClass(c) == [t |-> "class", c |-> c]
VScope(h) == [t |-> "scope", h |-> h]
\* target[symbol] of the proxied empty array
VTarget == [t |-> "target"]

NoCall == [op |-> "init", h |-> 0, prop |-> <<>>, stack |-> <<>>, cls |-> 0, args |-> <<>>]

\* ======================= core logic =======================

\* a variant that hands out an empty Map on every call; C3 must not survive it
getScopedDefinitionsFresh(scope) == (scope :> <<>>) @@ defs

\* getScopedDefinitions: the scope's Map, created empty when missing
getScopedDefinitions(scope) ==
  IF scope \in DOMAIN defs THEN defs ELSE defs @@ (scope :> <<>>)

\* a variant that never finds the name; C1 must not survive it
ScopeHasNever(scope, errorName) == FALSE

\* scope.has(options.errorName)
ScopeHas(scope, errorName) == MapHas(scope, errorName)

\* a variant that counts the classes of all scopes; C2 must not survive it
scopedIndexGlobal(scope) == Len(classes)

\* static scopedIndex: number = scope.size
scopedIndex(scope) == Len(scope)

\* a variant whose class takes the size its scope had when it was created,
\* none; C29 must not survive it
NewClassAtZero(errorName, labelName, scope) ==
  [errorName |-> errorName, labelName |-> labelName, scopedIndex |-> 0]

\* the ScopedException class defined for a miss
NewClass(errorName, labelName, scope) ==
  [errorName |-> errorName, labelName |-> labelName, scopedIndex |-> scopedIndex(scope)]

\* defineScopedExcption once the scope key is resolved and the scope's Map
\* exists (defs1): the registry and the classes after the call, and the class
\* it returns
DefineIn(errorName, labelName, key, defs1) ==
  IF ScopeHas(defs1[key], errorName)
    THEN [defs |-> defs1, classes |-> classes, key |-> key,
          cls |-> MapGet(defs1[key], errorName)]
    ELSE [defs |-> [defs1 EXCEPT ![key] = MapSet(@, errorName, Len(classes) + 1)],
          classes |-> Append(classes, NewClass(errorName, labelName, defs1[key])),
          key |-> key,
          cls |-> Len(classes) + 1]

DefineAt(errorName, labelName, key) ==
  DefineIn(errorName, labelName, key, getScopedDefinitions(key))

\* labeledScopeName over the labels and stacks of the model, computed once
ScopeKeys ==
  [labelName \in Labels \cup {S_global}, stack \in Stacks |->
     labeledScopeName(labelName, stack)]

defineScopedExcption(errorName, labelName, stack) ==
  DefineAt(errorName, labelName, ScopeKeys[labelName, stack])

\* ======================= Exception.enum =======================

\* a variant that lists a name once per request; C4 must not survive it
localScopeSetAppend(localScope, errorName, def) ==
  Append(localScope, [k |-> errorName, v |-> def])

\* localScope.set(errorName, def)
localScopeSet(localScope, errorName, def) == MapSet(localScope, errorName, def)

\* a variant in which the handles of one label share their localScope; C5
\* must not survive it
handlesAfterSetShared(h, errorName, def) ==
  [i \in 1..Len(handles) |->
     IF handles[i].label = handles[h].label
       THEN [handles[i] EXCEPT !.localScope = localScopeSet(@, errorName, def)]
       ELSE handles[i]]

\* the localScope the get trap of handle h closes over is that call's own Map
handlesAfterSet(h, errorName, def) ==
  [handles EXCEPT ![h].localScope = localScopeSet(@, errorName, def)]

\* a variant without the 'scope' branch; C6 must not survive it
getTrapBranchNoScope(errorName) ==
  IF errorName = SYMBOL THEN "symbol"
  ELSE IF errorName = S_length THEN "length"
  ELSE "define"

\* the branch the get trap takes for a property key
getTrapBranch(errorName) ==
  IF errorName = SYMBOL THEN "symbol"
  ELSE IF errorName = S_scope THEN "scope"
  ELSE IF errorName = S_length THEN "length"
  ELSE "define"

\* Exception.enum(options): a new proxy with its own empty localScope
Enum(label) ==
  /\ Len(handles) < MaxHandles
  /\ handles' = Append(handles, [label |-> label, localScope |-> <<>>])
  /\ call' = [NoCall EXCEPT !.op = "enum", !.h = Len(handles) + 1]
  /\ ret' = VScope(Len(handles) + 1)
  /\ UNCHANGED <<globalConfig, pending, defs, classes, insts, log, nreq>>

\* the stacks the platform can give the dummy Exception of
\* defineScopedExcption: none is taken on the branches that do not call it
GetStacks(errorName) == IF getTrapBranch(errorName) = "define" THEN Stacks ELSE {<<>>}

\* the get trap of the proxy of handle h, for property errorName, with the
\* stack the platform gives the dummy Exception of defineScopedExcption (no
\* stack is taken on the branches that do not call it)
ProxyGet(h, errorName, stack) ==
  /\ h \in 1..Len(handles)
  /\ nreq < MaxReq
  /\ nreq' = nreq + 1
  /\ call' = [NoCall EXCEPT !.op = "get", !.h = h, !.prop = errorName, !.stack = stack]
  /\ \E branch \in {getTrapBranch(errorName)} :
        IF branch = "symbol"
          THEN /\ ret' = VTarget
               /\ UNCHANGED <<globalConfig, pending, defs, classes, handles, insts, log>>
        ELSE IF branch = "scope"
          THEN /\ ret' = VScope(h)
               /\ UNCHANGED <<globalConfig, pending, defs, classes, handles, insts, log>>
        ELSE IF branch = "length"
          THEN /\ ret' = [t |-> "number", n |-> conf.maxScopedDefs]
               /\ UNCHANGED <<globalConfig, pending, defs, classes, handles, insts, log>>
        ELSE \E r \in {defineScopedExcption(errorName, handles[h].label, stack)} :
                /\ defs' = r.defs
                /\ classes' = r.classes
                /\ handles' = handlesAfterSet(h, errorName, r.cls)
                /\ ret' = VClass(r.cls)
                /\ log' = Append(log, [h |-> h, scope |-> r.key,
                                        name |-> errorName, cls |-> r.cls])
                /\ UNCHANGED <<globalConfig, pending, insts>>

Init ==
  /\ defs = <<>>
  /\ classes = <<>>
  /\ handles = <<>>
  /\ insts = <<>>
  /\ call = NoCall
  /\ ret = VUndef
  /\ log = <<>>
  /\ nreq = 0
  /\ globalConfig = conf
  /\ pending = NoPending

Next ==
  \/ \E label \in Labels : Enum(label)
  \/ \E h \in 1..MaxHandles, errorName \in Props :
       \E stack \in GetStacks(errorName) : ProxyGet(h, errorName, stack)

Spec == Init /\ [][Next]_vars


\* ======================= lookup, create and insert as steps =======================

\* defineScopedExcption executed by a requester whose steps other requests
\* may come between, as on a platform with parallel requesters: the lookup
\* (scope.has), the class definition (which reads scope.size) and the insert
\* (scope.set) are one step each. Every other request runs as a whole.

\* the names and the call sites of the requests
RaceNames == {<<"A">>, <<"B">>}
RaceStacks == {StackNoFrame}

\* the factories, none with a label, and nothing requested yet
InitRace ==
  /\ defs = <<>>
  /\ classes = <<>>
  /\ handles = [h \in 1..MaxHandles |-> [label |-> UNDEFINED, localScope |-> <<>>]]
  /\ insts = <<>>
  /\ call = NoCall
  /\ ret = VUndef
  /\ log = <<>>
  /\ nreq = 0
  /\ globalConfig = conf
  /\ pending = NoPending

\* getScopedDefinitions and scope.has(errorName), which misses
Lookup(h, errorName, stack) ==
  /\ h \in 1..Len(handles)
  /\ nreq < MaxReq
  /\ pending.slot = <<>>
  /\ \E key \in {ScopeKeys[handles[h].label, stack]} :
       /\ ~ScopeHas(getScopedDefinitions(key)[key], errorName)
       /\ defs' = getScopedDefinitions(key)
       /\ pending' = [pending EXCEPT !.slot =
                        << [h |-> h, name |-> errorName, key |-> key, pc |-> "create",
                            cls |-> 0, logLen |-> Len(log)] >>]
  /\ nreq' = nreq + 1
  /\ call' = [NoCall EXCEPT !.op = "lookup", !.h = h, !.prop = errorName, !.stack = stack]
  /\ ret' = VUndef
  /\ UNCHANGED <<globalConfig, classes, handles, insts, log>>

\* class ScopedException ... static scopedIndex = scope.size
Create ==
  /\ pending.slot # <<>>
  /\ pending.slot[1].pc = "create"
  /\ classes' = Append(classes, NewClass(pending.slot[1].name,
                                          handles[pending.slot[1].h].label,
                                          defs[pending.slot[1].key]))
  /\ pending' = [pending EXCEPT !.slot[1].pc = "insert",
                                 !.slot[1].cls = Len(classes) + 1]
  /\ call' = [call EXCEPT !.op = "create"]
  /\ UNCHANGED <<globalConfig, defs, handles, insts, ret, log, nreq>>

\* scope.set(options.errorName, ScopedException), the return, and
\* localScope.set of the get trap
Insert ==
  /\ pending.slot # <<>>
  /\ pending.slot[1].pc = "insert"
  /\ defs' = [defs EXCEPT ![pending.slot[1].key] =
                 MapSet(@, pending.slot[1].name, pending.slot[1].cls)]
  /\ handles' = handlesAfterSet(pending.slot[1].h, pending.slot[1].name,
                                 pending.slot[1].cls)
  /\ log' = Append(log, [h |-> pending.slot[1].h, scope |-> pending.slot[1].key,
                          name |-> pending.slot[1].name, cls |-> pending.slot[1].cls])
  /\ pending' = [slot |-> <<>>,
                  interleaved |-> pending.interleaved
                                    \/ Len(log) # pending.slot[1].logLen]
  /\ call' = [call EXCEPT !.op = "get"]
  /\ ret' = VClass(pending.slot[1].cls)
  /\ UNCHANGED <<globalConfig, classes, insts, nreq>>

NextRace ==
  \/ \E h \in 1..MaxHandles, errorName \in RaceNames, stack \in RaceStacks :
       ProxyGet(h, errorName, stack)
  \/ \E h \in 1..MaxHandles, errorName \in RaceNames, stack \in RaceStacks :
       Lookup(h, errorName, stack)
  \/ Create
  \/ Insert

SpecRace == InitRace /\ [][NextRace]_vars

\* ======================= scopes side by side =======================

\* a factory without a label and one whose label is 'global': the key of the
\* first, 'global' where the stack has no frame line, is the beginning of the
\* key of the second, 'global:global'
InitIsolate ==
  /\ defs = <<>>
  /\ classes = <<>>
  /\ handles = << [label |-> UNDEFINED, localScope |-> <<>>],
                  [label |-> S_global, localScope |-> <<>>] >>
  /\ insts = <<>>
  /\ call = NoCall
  /\ ret = VUndef
  /\ log = <<>>
  /\ nreq = 0
  /\ globalConfig = conf
  /\ pending = NoPending

NextIsolate ==
  \E h \in 1..MaxHandles, errorName \in Names, stack \in Stacks :
    ProxyGet(h, errorName, stack)

SpecIsolate == InitIsolate /\ [][NextIsolate]_vars

\* ======================= interpolateTemplate as a function =======================

\* the values the constructor can hand to interpolateTemplate
RenderLabels == {UNDEFINED, <<"L">>, <<"$", "&">>}
RenderMessages == {<<>>, <<"b", "o", "o", "m">>, <<"$", "&">>, <<"a", "$", "$">>}
RenderErrors == {<<"X">>, <<"4", "0", "4">>, <<"$", "'">>}
RenderFiles == {UNDEFINED, <<>>, <<"t", ".", "t", "s">>}

InitRender ==
  /\ defs = <<>>
  /\ classes = <<>>
  /\ handles = <<>>
  /\ insts = <<>>
  /\ \E label \in RenderLabels, message \in RenderMessages,
        error \in RenderErrors, file \in RenderFiles :
       call = [NoCall EXCEPT !.op = "input", !.args = <<label, message, error, file>>]
  /\ ret = VUndef
  /\ log = <<>>
  /\ nreq = 0
  /\ globalConfig = conf
  /\ pending = NoPending

\* interpolateTemplate({ $label, $message, $error, $file }) on the inputs
Render ==
  /\ call.op = "input"
  /\ call' = [call EXCEPT !.op = "render"]
  /\ ret' = VStr(interpolateTemplate(
              TemplateVars(call.args[1], call.args[2], call.args[3], call.args[4])))
  /\ UNCHANGED <<globalConfig, pending, defs, classes, handles, insts, log, nreq>>

NextRender == Render

SpecRender == InitRender /\ [][NextRender]_vars

\* ======================= scope resolution as a function =======================

\* the labels a factory call can carry: none, the empty text, a word, the
\* default scope name itself, once and three times over
S_ggg == S_global \o <<":">> \o S_global \o <<":">> \o S_global
ScopeLabels ==
  {UNDEFINED, <<>>, <<"L">>, S_global, S_ggg, <<"t", ".", "t", "s">>, <<"a", " ", "b">>}

\* a stack of two frames, the last in /r/u.ts
StackTU == StackT \o <<"\n", " ", "a", "t", " ", "g", " ",
                       "(", "/", "r", "/", "u", ".", "t", "s", ":", "3", ":", "4", ")">>
\* a frame outside the module's directory
StackOut == <<"E", "\n", " ", "a", "t", " ", "f", " ",
              "(", "/", "x", "/", "y", ".", "j", "s", ":", "1", ":", "2", ")">>
\* a frame whose path has no '/': a drive letter and backslashes
StackW == <<"E", "\n", " ", "a", "t", " ", "f", " ",
            "(", "C", ":", "\\", "r", "\\", "t", ".", "t", "s", ":", "1", ":", "2", ")">>
\* a frame line with a bare file name
StackBare == <<"E", "\n", " ", "a", "t", " ", "t", ".", "t", "s", ":", "1", ":", "2">>

\* the stack texts of the dummy Exception: missing, empty, without frame
\* line, with well-formed frames, with frames that have no path
ScopeStacks ==
  {UNDEFINED, <<>>, StackNoFrame, StackT, StackTU, StackOut, StackW, StackBare}

InitScope ==
  /\ defs = <<>>
  /\ classes = <<>>
  /\ handles = <<>>
  /\ insts = <<>>
  /\ \E label \in ScopeLabels, stack \in ScopeStacks :
       call = [NoCall EXCEPT !.op = "input", !.args = <<label, stack>>]
  /\ ret = VUndef
  /\ log = <<>>
  /\ nreq = 0
  /\ globalConfig = conf
  /\ pending = NoPending

\* the scope resolution of defineScopedExcption on the inputs: no step of it
\* raises
ResolveScope ==
  /\ call.op = "input"
  /\ call' = [call EXCEPT !.op = "scope"]
  /\ ret' = VStr(labeledScopeName(call.args[1], call.args[2]))
  /\ UNCHANGED <<globalConfig, pending, defs, classes, handles, insts, log, nreq>>

NextScope == ResolveScope

SpecScope == InitScope /\ [][NextScope]_vars

\* ======================= instances =======================

\* item instanceof Error || item instanceof Exception
IsErrorValue(v) == v.t \in {"error", "instance"}

\* typeof item === 'object' (null is filtered before by !item)
IsObjectValue(v) == v.t \in {"error", "instance", "object", "null"}

\* !item
Falsy(v) ==
  \/ v.t \in {"undefined", "null"}
  \/ (v.t = "string" /\ v.s = <<>>)
  \/ (v.t = "number" /\ v.n = 0)
  \/ (v.t = "boolean" /\ ~v.b)

\* a value String() has no text for: an object with neither toString nor
\* valueOf, such as Object.create(null)
UNPRINTABLE == <<"unprintable">>

\* the outcome of a call that raised
VThrow == [t |-> "throw"]

\* Error.prototype.toString
ErrorToString(name, message) ==
  IF message = <<>> THEN name ELSE name \o <<":", " ">> \o message

\* how Array.prototype.join renders an element: '' for undefined and null,
\* String(element) otherwise
ItemString(v, heap) ==
  CASE v.t = "string" -> v.s
    [] v.t \in {"undefined", "null"} -> <<>>
    [] v.t = "number" -> NumberText(v)
    [] v.t = "boolean" -> (IF v.b THEN <<"t", "r", "u", "e">> ELSE <<"f", "a", "l", "s", "e">>)
    [] v.t = "error" -> ErrorToString(S_Error, v.message)
    [] v.t = "instance" -> ErrorToString(heap[v.i].name, heap[v.i].message)
    [] OTHER -> <<"[", "o", "b", "j", "e", "c", "t", " ", "O", "b", "j", "e", "c", "t", "]">>

\* JSON.stringify of an Exception instance: its own enumerable properties
\* name, scopeIndex, code, originalMessage (message, stack and cause are not
\* enumerable; undefined values are left out)
JsonInstance(inst) ==
  <<"{">>
  \o Join(<< JsonField(<<"n", "a", "m", "e">>, JsonString(inst.name)),
             JsonField(<<"s", "c", "o", "p", "e", "I", "n", "d", "e", "x">>,
                       NumToStr(inst.scopeIndex)) >>
          \o (IF inst.code.t = "number"
                THEN <<JsonField(<<"c", "o", "d", "e">>, JsonNumber(inst.code))>>
                ELSE <<>>)
          \o (IF inst.originalMessage # UNDEFINED
                THEN <<JsonField(<<"o", "r", "i", "g", "i", "n", "a", "l",
                                   "M", "e", "s", "s", "a", "g", "e">>,
                                 JsonString(inst.originalMessage))>>
                ELSE <<>>),
          <<",">>)
  \o <<"}">>

\* JSON.stringify of a truthy object that does not throw
JsonOf(v, heap) ==
  CASE v.t = "instance" -> JsonInstance(heap[v.i])
    [] v.t = "object" /\ v.message = UNPRINTABLE ->
         <<"{">> \o JsonField(<<"m", "e", "s", "s", "a", "g", "e">>, <<"{", "}">>)
         \o <<"}">>
    [] v.t = "object" /\ v.message # UNDEFINED ->
         <<"{">> \o JsonField(<<"m", "e", "s", "s", "a", "g", "e">>, JsonString(v.message))
         \o <<"}">>
    [] OTHER -> <<"{", "}">>

\* JSON.stringify throws on an object that refers to itself
JsonThrows(v) == v.t = "object" /\ v.circular

\* the map callback of safeEncode
EncodeItem(v, heap) ==
  IF Falsy(v) THEN ItemString(v, heap)
  ELSE IF IsObjectValue(v) THEN JsonOf(v, heap)
  ELSE ItemString(v, heap)

EncodeItems(args, heap) == [k \in 1..Len(args) |-> EncodeItem(args[k], heap)]

ItemStrings(args, heap) == [k \in 1..Len(args) |-> ItemString(args[k], heap)]

\* a variant whose fallback is taken for the failing item only; C20 must not
\* survive it
safeEncodePerItem(args, heap) ==
  Join([k \in 1..Len(args) |->
          IF JsonThrows(args[k]) THEN ItemString(args[k], heap)
          ELSE EncodeItem(args[k], heap)], <<" ">>)

\* safeEncode(...args): conf.encoding is 'json', so the basic join is reached
\* through the catch only
safeEncode(args, heap) ==
  IF conf.encoding = "basic" \/ (\E k \in 1..Len(args) : JsonThrows(args[k]))
    THEN Join(ItemStrings(args, heap), conf.delimiter)
    ELSE Join(EncodeItems(args, heap), <<" ">>)

\* a variant that takes the last Error or Exception; C19 must not survive it
getPossibleCauseLast(args) ==
  IF \E k \in 1..Len(args) : IsErrorValue(args[k])
    THEN args[MaxOr({k \in 1..Len(args) : IsErrorValue(args[k])}, 1)]
    ELSE VUndef

\* getPossibleCause(...args): the first Error or Exception among the arguments
getPossibleCause(args) ==
  IF \E k \in 1..Len(args) : IsErrorValue(args[k])
    THEN args[MinOr({k \in 1..Len(args) : IsErrorValue(args[k])}, 1)]
    ELSE VUndef

\* the digits of the radixes Number() reads after 0x, 0o and 0b
HexDigits ==
  <<"0", "1", "2", "3", "4", "5", "6", "7", "8", "9", "a", "b", "c", "d", "e", "f">>

Lower(c) ==
  CASE c = "A" -> "a" [] c = "B" -> "b" [] c = "C" -> "c"
    [] c = "D" -> "d" [] c = "E" -> "e" [] c = "F" -> "f" [] OTHER -> c

IsRadixDigit(c, radix) == \E d \in 1..radix : HexDigits[d] = Lower(c)

RadixDigitVal(c) == (CHOOSE d \in 1..16 : HexDigits[d] = Lower(c)) - 1

RECURSIVE RadixVal(_, _)
RadixVal(s, radix) ==
  IF s = <<>> THEN 0
  ELSE RadixVal(SubSeq(s, 1, Len(s) - 1), radix) * radix + RadixDigitVal(s[Len(s)])

\* the radix a literal announces with its first two characters, 10 when it
\* announces none
RadixOf(s) ==
  IF Len(s) < 2 \/ s[1] # "0" THEN 10
  ELSE CASE s[2] \in {"x", "X"} -> 16
         [] s[2] \in {"o", "O"} -> 8
         [] s[2] \in {"b", "B"} -> 2
         [] OTHER -> 10

AllDigits(s) == \A k \in 1..Len(s) : IsDigit(s[k])

\* the number sign * m * 10^x, m >= 0
RECURSIVE MakeNumber(_, _, _)
MakeNumber(sign, m, x) ==
  IF m = 0 THEN VNum(0)
  ELSE IF x >= 0 THEN VNum(sign * m * Pow10(x))
  ELSE IF m % 10 = 0 THEN MakeNumber(sign, m \div 10, x + 1)
  ELSE VDec(sign * m, x)

\* the value of an exponent part: an optional sign and digits
ExponentVal(e) ==
  IF Head(e) = "-" THEN -DecimalVal(Tail(e))
  ELSE IF Head(e) = "+" THEN DecimalVal(Tail(e))
  ELSE DecimalVal(e)

IsExponent(e) ==
  /\ e # <<>>
  /\ IF Head(e) \in {"+", "-"} THEN Len(e) >= 2 /\ AllDigits(Tail(e)) ELSE AllDigits(e)

\* a mantissa: digits, with one '.' at most, one digit at least
IsMantissa(m) ==
  /\ \E k \in 1..Len(m) : IsDigit(m[k])
  /\ \A k \in 1..Len(m) : IsDigit(m[k]) \/ m[k] = "."
  /\ Cardinality({k \in 1..Len(m) : m[k] = "."}) <= 1

\* the digits of a mantissa after its '.'
FractionOf(m) ==
  IF IndexOf(m, <<".">>) = -1 THEN <<>> ELSE SliceFrom(m, IndexOf(m, <<".">>) + 1)

\* the digits of a mantissa before its '.'
WholeOf(m) ==
  IF IndexOf(m, <<".">>) = -1 THEN m ELSE Slice(m, 0, IndexOf(m, <<".">>))

\* the number an unsigned decimal literal with mantissa m and exponent value
\* x denotes
DecimalNumber(sign, m, x) ==
  MakeNumber(sign, DecimalVal(WholeOf(m) \o FractionOf(m)), x - Len(FractionOf(m)))

\* the 1-based position of the 'e' or 'E' of a decimal literal, 0 when it
\* has none
ExponentAt(s) == MinOr({k \in 1..Len(s) : s[k] \in {"e", "E"}}, 0)

\* an unsigned decimal literal: Infinity, or a mantissa and an optional
\* exponent; NaN (here VUndef) for any other text
UnsignedDecimal(sign, s) ==
  IF s = <<"I", "n", "f", "i", "n", "i", "t", "y">> THEN VInf(sign)
  ELSE IF ExponentAt(s) = 0
    THEN (IF IsMantissa(s) THEN DecimalNumber(sign, s, 0) ELSE VUndef)
  ELSE IF IsMantissa(SubSeq(s, 1, ExponentAt(s) - 1))
            /\ IsExponent(SubSeq(s, ExponentAt(s) + 1, Len(s)))
    THEN DecimalNumber(sign, SubSeq(s, 1, ExponentAt(s) - 1),
                       ExponentVal(SubSeq(s, ExponentAt(s) + 1, Len(s))))
  ELSE VUndef

\* StringToNumber of a text without white space around it
NumberOfTrimmed(s) ==
  IF s = <<>> THEN VNum(0)
  ELSE IF RadixOf(s) # 10
    THEN (IF Len(s) >= 3 /\ \A k \in 3..Len(s) : IsRadixDigit(s[k], RadixOf(s))
            THEN VNum(RadixVal(SubSeq(s, 3, Len(s)), RadixOf(s)))
            ELSE VUndef)
  ELSE IF Head(s) = "-" THEN UnsignedDecimal(-1, Tail(s))
  ELSE IF Head(s) = "+" THEN UnsignedDecimal(1, Tail(s))
  ELSE UnsignedDecimal(1, s)

\* Number(this.name), and isNaN(code) ? this.code : code: NaN leaves the code
\* undefined. Values are exact, as they are below 2^53.
NumberOfName(name) == NumberOfTrimmed(Trim(name))

\* the names kinds are requested under when their code is read: decimal
\* digits, words, and texts Number() reads as numbers of other notations
CodeNames ==
  {<<"4", "0", "4">>, <<"A">>, <<"N", "a", "N">>, <<"1", "2", "p", "x">>,
   <<>>, <<"-", "1">>, <<"0", "x", "1", "F">>, <<"1", "e", "3">>,
   <<"1", ".", "5">>, <<"I", "n", "f", "i", "n", "i", "t", "y">>}

\* Number(this.name) over the names of the model, computed once
NameCodes == [name \in Names \cup CodeNames |-> NumberOfName(name)]

\* const code = Number(this.name)
codeOfName(name) ==
  IF name \in DOMAIN NameCodes THEN NameCodes[name] ELSE NumberOfName(name)

\* the Exception constructor and field initialisers
BaseInstance(args, stack, heap) ==
  [cls |-> 0,
   name |-> S_Exception,
   label |-> UNDEFINED,
   scopeIndex |-> 0,
   code |-> VUndef,
   message |-> safeEncode(args, heap),
   originalMessage |-> UNDEFINED,
   cause |-> getPossibleCause(args),
   stack |-> stack]

\* getStackInfo(this.stack)?.fileName over the stacks of the model, computed
\* once
FileNames == [stack \in Stacks |-> getStackInfoFileName(stack)]

\* get fileName()
fileName(stack) ==
  IF stack \in Stacks THEN FileNames[stack] ELSE getStackInfoFileName(stack)

\* the ScopedException constructor and field initialisers applied to the
\* instance super(...args) built
ScopedInstance(c, base) ==
  [base EXCEPT
     !.cls = c,
     !.name = classes[c].errorName,
     !.label = classes[c].labelName,
     !.scopeIndex = classes[c].scopedIndex,
     !.code = codeOfName(classes[c].errorName),
     !.originalMessage = base.message,
     !.message = interpolateTemplate(
                   TemplateVars(classes[c].labelName, base.message,
                                classes[c].errorName, fileName(base.stack)))]

\* new K(...args) for the class K at index c (0 is Exception itself)
Construct(c, args, stack) ==
  IF c = 0 THEN BaseInstance(args, stack, insts)
  ELSE ScopedInstance(c, BaseInstance(args, stack, insts))

\* a variant that accepts nothing; C10 must not survive it
IsNever(c, obj) == FALSE

\* K.is(obj): obj instanceof K
Is(c, obj) == obj.t = "instance" /\ (c = 0 \/ insts[obj.i].cls = c)

\* obj.message of an Error or Exception
MessageOf(obj) == IF obj.t = "instance" THEN insts[obj.i].message ELSE obj.message

WithCause(inst, obj) == [inst EXCEPT !.cause = obj]

\* String(obj.message) raises a TypeError in the branch of the objects that
\* have a message field
castThrows(obj) == obj.t = "object" /\ obj.message = UNPRINTABLE

\* the instance cast builds when obj is not of the kind already
castNew(c, obj, stack) ==
  IF obj.t = "string" THEN Construct(c, <<obj>>, stack)
  ELSE IF IsErrorValue(obj)
    THEN WithCause(Construct(c, <<VStr(MessageOf(obj))>>, stack), obj)
  ELSE IF obj.t = "object" /\ obj.message # UNDEFINED
    THEN Construct(c, <<VStr(obj.message)>>, stack)
  ELSE Construct(c, <<obj>>, stack)

\* the message arguments and the values handed to cast
ArgLists == {<<>>, <<VStr(<<>>)>>, <<VStr(<<"s">>)>>}
CastValues ==
  {VStr(<<"s">>), VStr(<<"$", "&">>)}
    \cup {VErr(<<"e">>), VObj(<<"m">>, FALSE), VObj(UNDEFINED, TRUE)}
    \cup {VInst(i) : i \in 1..MaxInst}

\* K.new(...args) / new K(...args)
New(c, args, stack) ==
  /\ c \in 0..Len(classes)
  /\ Len(insts) < MaxInst
  /\ \A k \in 1..Len(args) : args[k].t = "instance" => args[k].i \in 1..Len(insts)
  /\ insts' = Append(insts, Construct(c, args, stack))
  /\ call' = [NoCall EXCEPT !.op = "new", !.cls = c, !.args = args, !.stack = stack]
  /\ ret' = VInst(Len(insts) + 1)
  /\ UNCHANGED <<globalConfig, pending, defs, classes, handles, log, nreq>>

\* the stacks the platform can give the instance cast constructs: none is
\* taken when cast returns obj as it is or raises before constructing
CastStacks(c, obj) == IF Is(c, obj) \/ castThrows(obj) THEN {<<>>} ELSE Stacks

\* K.cast(obj)
Cast(c, obj) ==
  /\ c \in 0..Len(classes)
  /\ obj.t = "instance" => obj.i \in 1..Len(insts)
  /\ \E stack \in CastStacks(c, obj) :
       /\ call' = [NoCall EXCEPT !.op = "cast", !.cls = c, !.args = <<obj>>,
                                 !.stack = stack]
       /\ IF Is(c, obj)
            THEN /\ ret' = obj
                 /\ insts' = insts
            ELSE IF castThrows(obj)
            THEN /\ ret' = VThrow
                 /\ insts' = insts
            ELSE /\ Len(insts) < MaxInst
                 /\ insts' = Append(insts, castNew(c, obj, stack))
                 /\ ret' = VInst(Len(insts) + 1)
  /\ UNCHANGED <<globalConfig, pending, defs, classes, handles, log, nreq>>

\* the registry after one Exception.enum() and one Exception.enum({ label:
\* 'L' }) call with no frame line in the stack, kind A requested of the
\* first and kind 404 of the second
InitInst ==
  /\ defs = (S_global :> << [k |-> <<"A">>, v |-> 1] >>)
            @@ (JoinLabel(<<"L">>, S_global) :> << [k |-> <<"4", "0", "4">>, v |-> 2] >>)
  /\ classes = << [errorName |-> <<"A">>, labelName |-> UNDEFINED, scopedIndex |-> 0],
                  [errorName |-> <<"4", "0", "4">>, labelName |-> <<"L">>, scopedIndex |-> 0] >>
  /\ handles = << [label |-> UNDEFINED, localScope |-> << [k |-> <<"A">>, v |-> 1] >>],
                  [label |-> <<"L">>, localScope |-> << [k |-> <<"4", "0", "4">>, v |-> 2] >>] >>
  /\ insts = <<>>
  /\ call = NoCall
  /\ ret = VUndef
  /\ log = << [h |-> 1, scope |-> S_global, name |-> <<"A">>, cls |-> 1],
              [h |-> 2, scope |-> JoinLabel(<<"L">>, S_global),
               name |-> <<"4", "0", "4">>, cls |-> 2] >>
  /\ nreq = 2
  /\ globalConfig = conf
  /\ pending = NoPending

NextInst ==
  \/ \E c \in 0..2, args \in ArgLists, stack \in Stacks : New(c, args, stack)
  \/ \E c \in 0..2, obj \in CastValues : Cast(c, obj)

SpecInst == InitInst /\ [][NextInst]_vars

\* every class of value cast is handed: strings, numbers, booleans, null,
\* undefined, objects with and without a message field, native errors and
\* instances
CastInputs ==
  CastValues
    \cup {VUndef, VNull, VNum(0), VNum(0 - 1), VNum(404), VBool(FALSE), VBool(TRUE)}
    \cup {VObj(UNDEFINED, FALSE), VObj(UNPRINTABLE, FALSE)}

NextCast == \E c \in 0..2, obj \in CastInputs : Cast(c, obj)

SpecCast == InitInst /\ [][NextCast]_vars

\* argument lists with errors, instances and objects at several positions,
\* and with an object that refers to itself
ErrorArgLists ==
  {<<VStr(<<"s">>)>>,
   <<VStr(<<"s">>), VErr(<<"e">>)>>,
   <<VObj(<<"m">>, FALSE), VErr(<<"e">>), VErr(<<"f">>)>>,
   <<VStr(<<"s">>), VInst(1), VErr(<<"f">>)>>,
   <<VErr(<<"f">>), VInst(1)>>,
   <<VStr(<<"s">>), VObj(UNDEFINED, TRUE)>>,
   <<VObj(<<"m">>, FALSE), VObj(UNDEFINED, TRUE), VErr(<<"e">>)>>}

NextArgs == \E c \in 0..2, args \in ErrorArgLists, stack \in Stacks : New(c, args, stack)

SpecArgs == InitInst /\ [][NextArgs]_vars

\* kinds of these names are requested through the two handles and constructed
NextCode ==
  \/ \E h \in 1..MaxHandles, errorName \in CodeNames :
       \E stack \in GetStacks(errorName) : ProxyGet(h, errorName, stack)
  \/ \E c \in 0..MaxReq, args \in ArgLists, stack \in Stacks : New(c, args, stack)

SpecCode == InitInst /\ [][NextCode]_vars

\* ======================= is and throw =======================

\* the outcome of a call that raised the value v
VRaised(v) == [t |-> "raised", v |-> v]

\* a variant that accepts the instances of every kind; C23 must not survive it
IsResultAny(c, obj) == VBool(obj.t = "instance")

\* what K.is(obj) returns
IsResult(c, obj) == VBool(Is(c, obj))

\* K.is(obj)
IsCheck(c, obj) ==
  /\ c \in 0..Len(classes)
  /\ obj.t = "instance" => obj.i \in 1..Len(insts)
  /\ call' = [NoCall EXCEPT !.op = "is", !.cls = c, !.args = <<obj>>]
  /\ ret' = IsResult(c, obj)
  /\ UNCHANGED <<globalConfig, pending, defs, classes, handles, insts, log, nreq>>

\* K.throw(...args): throw this.new(...args)
Throw(c, args, stack) ==
  /\ c \in 0..Len(classes)
  /\ Len(insts) < MaxInst
  /\ \A k \in 1..Len(args) : args[k].t = "instance" => args[k].i \in 1..Len(insts)
  /\ insts' = Append(insts, Construct(c, args, stack))
  /\ call' = [NoCall EXCEPT !.op = "throw", !.cls = c, !.args = args, !.stack = stack]
  /\ ret' = VRaised(VInst(Len(insts) + 1))
  /\ UNCHANGED <<globalConfig, pending, defs, classes, handles, log, nreq>>

\* the values handed to is: null, undefined, a native error, a text, an
\* object with a message field, and instances
IsValues ==
  {VNull, VUndef, VErr(<<"e">>), VStr(<<"s">>), VObj(<<"m">>, FALSE)}
    \cup {VInst(i) : i \in 1..MaxInst}

IsArgLists == {<<VStr(<<"s">>)>>}

\* the call site of the constructions and the name of the further kind
IsStacks == {StackNoFrame}
IsNames == {<<"B">>}

\* further kinds are requested through the two handles, instances are
\* constructed and thrown, and values are tested
NextIs ==
  \/ \E h \in 1..MaxHandles, errorName \in IsNames, stack \in IsStacks :
       ProxyGet(h, errorName, stack)
  \/ \E c \in 0..MaxReq, args \in IsArgLists, stack \in IsStacks : New(c, args, stack)
  \/ \E c \in 0..MaxReq, args \in IsArgLists, stack \in IsStacks : Throw(c, args, stack)
  \/ \E c \in 0..MaxReq, obj \in IsValues : IsCheck(c, obj)

SpecIs == InitInst /\ [][NextIs]_vars

\* ======================= snapshots and copies =======================

\* the characters of the class [A-Za-z0-9_]
WordChars ==
  {"A", "B", "C", "D", "E", "F", "G", "H", "I", "J", "K", "L", "M",
   "N", "O", "P", "Q", "R", "S", "T", "U", "V", "W", "X", "Y", "Z",
   "a", "b", "c", "d", "e", "f", "g", "h", "i", "j", "k", "l", "m",
   "n", "o", "p", "q", "r", "s", "t", "u", "v", "w", "x", "y", "z",
   "0", "1", "2", "3", "4", "5", "6", "7", "8", "9", "_"}

\* the 1-based position of the first character at or after position p that
\* is no white space, Len(s) + 1 when there is none
SkipSpaces(s, p) == MinOr({k \in p..Len(s) : ~IsSpace(s[k])}, Len(s) + 1)

\* the 1-based position of the ']' that ends the match of /^\[.*?\]\s+/,
\* 0 when the pattern does not match: the first ']' that white space
\* follows, with no line break between it and the opening '['
LabelEnd(s) ==
  IF s = <<>> \/ Head(s) # "[" THEN 0
  ELSE MinOr({p \in 2..(Len(s) - 1) :
                /\ s[p] = "]"
                /\ IsSpace(s[p + 1])
                /\ \A k \in 2..(p - 1) : s[k] # "\n"}, 0)

\* message.replace(/^\[.*?\]\s+/, '')
StripLabel(s) ==
  IF LabelEnd(s) = 0 THEN s
  ELSE SubSeq(s, SkipSpaces(s, LabelEnd(s) + 1), Len(s))

\* the length of the longest prefix of s made of [A-Za-z0-9_]
WordPrefix(s) == MinOr({k \in 1..Len(s) : s[k] \notin WordChars}, Len(s) + 1) - 1

\* text.replace(/^[A-Za-z0-9_]+:\s*/, '')
StripName(s) ==
  IF WordPrefix(s) >= 1 /\ WordPrefix(s) < Len(s) /\ s[WordPrefix(s) + 1] = ":"
    THEN SubSeq(s, SkipSpaces(s, WordPrefix(s) + 2), Len(s))
    ELSE s

\* the rawMessage toObject extracts from the message
rawMessageOf(message) == Trim(StripName(StripLabel(message)))

\* x.toObject() of the instance inst
toObject(inst) ==
  [name |-> inst.name,
   message |-> inst.message,
   rawMessage |-> rawMessageOf(inst.message),
   label |-> inst.label,
   scopeIndex |-> inst.scopeIndex,
   stack |-> inst.stack,
   cause |-> inst.cause,
   fileName |-> fileName(inst.stack)]

\* the plain object x.toObject() returned for the instance at index i
VSnapshot(i, data) == [t |-> "snapshot", of |-> i, data |-> data]

\* a variant that never hands the cause to the constructor; C14 must not
\* survive it
fromArgsNoCause(data) == <<VStr(data.rawMessage)>>

\* the arguments from hands to the constructor
fromArgs(data) ==
  IF Falsy(data.cause) THEN <<VStr(data.rawMessage)>>
  ELSE <<VStr(data.rawMessage), data.cause>>

\* a variant that keeps the stack of the construction; C15 must not survive it
fromStackKept(data, inst) == inst

\* if (data.stack) instance.stack = data.stack
fromStack(data, inst) ==
  IF Truthy(data.stack) THEN [inst EXCEPT !.stack = data.stack] ELSE inst

\* the instance K.from builds of the snapshot data, stack being the stack
\* the platform gives the construction
fromData(c, data, stack) == fromStack(data, Construct(c, fromArgs(data), stack))

\* const data = other instanceof Exception ? other.toObject() : other
dataOf(other) ==
  IF other.t = "instance" THEN toObject(insts[other.i]) ELSE other.data

\* K.from(other), called as such (op is "from") or by clone (op is "clone")
FromValue(c, other, op) ==
  /\ Len(insts) < MaxInst
  /\ \E stack \in Stacks :
       /\ insts' = Append(insts, fromData(c, dataOf(other), stack))
       /\ call' = [NoCall EXCEPT !.op = op, !.cls = c, !.args = <<other>>,
                                 !.stack = stack]
  /\ ret' = VInst(Len(insts) + 1)
  /\ UNCHANGED <<globalConfig, pending, defs, classes, handles, log, nreq>>

\* K.from(x) of the live instance x at index i
From(c, i) ==
  /\ i \in 1..Len(insts)
  /\ FromValue(c, VInst(i), "from")

\* K.from(o) of the snapshot o the last toObject() call returned
FromObject(c) ==
  /\ ret.t = "snapshot"
  /\ FromValue(c, ret, "from")

\* x.clone(): this.ctor.from(this)
Clone(i) ==
  /\ i \in 1..Len(insts)
  /\ FromValue(insts[i].cls, VInst(i), "clone")

\* x.toObject()
ToObject(i) ==
  /\ i \in 1..Len(insts)
  /\ call' = [NoCall EXCEPT !.op = "toObject", !.cls = insts[i].cls,
                            !.args = <<VInst(i)>>]
  /\ ret' = VSnapshot(i, toObject(insts[i]))
  /\ UNCHANGED <<globalConfig, pending, defs, classes, handles, insts, log, nreq>>

\* x.stack = undefined, done by the holder of x
ClearStack(i) ==
  /\ i \in 1..Len(insts)
  /\ insts[i].stack # UNDEFINED
  /\ insts' = [insts EXCEPT ![i].stack = UNDEFINED]
  /\ call' = [NoCall EXCEPT !.op = "clearStack", !.cls = insts[i].cls,
                            !.args = <<VInst(i)>>]
  /\ UNCHANGED <<globalConfig, pending, defs, classes, handles, ret, log, nreq>>

\* the arguments instances are constructed of before they are copied: no
\* message, a message, a message and a native error
CopyArgLists == {<<>>, <<VStr(<<"s">>)>>, <<VStr(<<"s">>), VErr(<<"e">>)>>}

NextCopy ==
  \/ \E c \in 0..2, args \in CopyArgLists, stack \in Stacks : New(c, args, stack)
  \/ \E c \in 0..2, i \in 1..MaxInst : From(c, i)
  \/ \E c \in 0..2 : FromObject(c)
  \/ \E i \in 1..MaxInst : Clone(i)
  \/ \E i \in 1..MaxInst : ToObject(i)

SpecCopy == InitInst /\ [][NextCopy]_vars

\* instances whose holder clears their stack before they are cloned
NextClear ==
  \/ \E c \in 0..2, args \in CopyArgLists, stack \in Stacks : New(c, args, stack)
  \/ \E i \in 1..MaxInst : ClearStack(i)
  \/ \E i \in 1..MaxInst : Clone(i)

SpecClear == InitInst /\ [][NextClear]_vars

\* ======================= setGlobalConfig =======================

\* { ...globalConfig, ...config }
mergeConfig(current, config) ==
  [k \in DOMAIN current |-> IF k \in DOMAIN config THEN config[k] ELSE current[k]]

\* the message under the template of config
Rerendered(inst, config) ==
  IF inst.cls = 0 THEN inst
  ELSE [inst EXCEPT !.message =
          Join(RenderBlocks(TemplateVars(inst.label, inst.originalMessage, inst.name,
                                         fileName(inst.stack)),
                            config.template), <<>>)]

\* a variant in which the message of an instance is rendered again from the
\* configuration at hand; C25 must not survive it
instsRerendered(config) == [j \in 1..Len(insts) |-> Rerendered(insts[j], config)]

\* the instances after setGlobalConfig: the assignment touches none of them
instsAfterSetConfig(config) == insts

\* Exception.setGlobalConfig(config)
SetGlobalConfig(config) ==
  /\ globalConfig' = mergeConfig(globalConfig, config)
  /\ insts' = instsAfterSetConfig(mergeConfig(globalConfig, config))
  /\ call' = [NoCall EXCEPT !.op = "setGlobalConfig", !.args = <<config>>]
  /\ ret' = VUndef
  /\ UNCHANGED <<pending, defs, classes, handles, log, nreq>>

\* the partial overrides handed to the setter
ConfigOverrides ==
  {[template |-> << S_message >>],
   [encoding |-> "basic", delimiter |-> <<"-">>],
   [maxScopedDefs |-> 5]}

\* a text and an object, so that the encoding and the delimiter show
ConfigArgLists == {<<VStr(<<"s">>), VObj(<<"m">>, FALSE)>>}
ConfigNames == {<<"B">>, S_length}
ConfigCastValues == {VErr(<<"e">>), VInst(1)}

\* the factory the requests go through, the kinds constructed (the base
\* type, A and the kind requested further) and the kind cast to
ConfigHandles == {1}
ConfigClasses == {0, 1, 3}
ConfigCastClasses == {1}

NextConfig ==
  \/ \E config \in ConfigOverrides : SetGlobalConfig(config)
  \/ \E h \in ConfigHandles, errorName \in ConfigNames, stack \in IsStacks :
       ProxyGet(h, errorName, stack)
  \/ \E c \in ConfigClasses, args \in ConfigArgLists, stack \in IsStacks :
       New(c, args, stack)
  \/ \E i \in 1..MaxInst : Clone(i)
  \/ \E c \in ConfigCastClasses, obj \in ConfigCastValues : Cast(c, obj)

SpecConfig == InitInst /\ [][NextConfig]_vars

\* ======================= text payloads =======================

\* the texts handed to a constructor as the sole argument: a letter, a long
\* text, whitespace and punctuation, and texts that hold a '$'
Payloads ==
  {<<"s">>,
   <<"a", "a", "a", "a", "a", "a", "a", "a", "a", "a", "a", "a">>,
   <<"T", ":", " ", "\n", " ", "\t">>,
   <<"$">>,
   <<"$", "&">>,
   <<"$", "$">>,
   <<"a", "$", "'">>}

PayloadArgLists == {<<VStr(m)>> : m \in Payloads}

NextPayload ==
  \E c \in 0..MaxReq, args \in PayloadArgLists, stack \in Stacks : New(c, args, stack)

SpecPayload == InitInst /\ [][NextPayload]_vars

\* ======================= match =======================

\* a callback that returns r whatever it is given
VFn(r) == [t |-> "function", r |-> r]

\* the static members of Exception and of the class of a kind: setGlobalConfig,
\* enum, cast, from, is, throw, new, and scopedIndex
ExceptionStatics ==
  {"setGlobalConfig", "cast", "from", "enum", "is", "throw", "new", "scopedIndex"}

\* K.match(...args): no class has a static member match, so K.match is
\* undefined and the call raises a TypeError before any argument is looked at
MatchStatic(c, args) ==
  /\ c \in 0..Len(classes)
  /\ args[1].t = "instance" => args[1].i \in 1..Len(insts)
  /\ call' = [NoCall EXCEPT !.op = "match", !.cls = c, !.args = args]
  /\ ret' = IF "match" \in ExceptionStatics THEN VUndef ELSE VThrow
  /\ UNCHANGED <<globalConfig, pending, defs, classes, handles, insts, log, nreq>>

\* this.defs().find((excp) => excp.is(e)): the index in localScope of the
\* first class that accepts e, 0 when there is none
FindMatched(localScope, e) ==
  MinOr({k \in 1..Len(localScope) : Is(localScope[k].v, e)}, 0)

\* scope.match(e) of handle h: matched.cast(e), which is e itself because
\* matched.is(e) holds, or undefined
scopeMatch(h, e) ==
  IF FindMatched(handles[h].localScope, e) # 0 THEN e ELSE VUndef

\* h.scope.match(e)
ScopeMatch(h, e) ==
  /\ h \in 1..Len(handles)
  /\ e.t = "instance" => e.i \in 1..Len(insts)
  /\ call' = [NoCall EXCEPT !.op = "scope.match", !.h = h, !.args = <<e>>]
  /\ ret' = scopeMatch(h, e)
  /\ UNCHANGED <<globalConfig, pending, defs, classes, handles, insts, log, nreq>>

\* the name requested further, and the arguments of K.match: a value alone,
\* or a value and a callback
MatchNames == {<<"A">>}
MatchArgLists ==
  {<<v>> : v \in IsValues}
    \cup {<<v, VFn(r)>> : v \in IsValues, r \in {VNum(123), VUndef}}

NextMatch ==
  \/ \E h \in 1..MaxHandles, errorName \in MatchNames, stack \in Stacks :
       ProxyGet(h, errorName, stack)
  \/ \E c \in 0..MaxReq, args \in IsArgLists, stack \in IsStacks : New(c, args, stack)
  \/ \E c \in 0..MaxReq, args \in MatchArgLists : MatchStatic(c, args)
  \/ \E h \in 1..MaxHandles, e \in IsValues : ScopeMatch(h, e)

SpecMatch == InitInst /\ [][NextMatch]_vars

\* ======================= claims: registry and factory =======================

\* the property access executed last was a request for a kind
IsKindRequest(c) == c.op = "get" /\ c.prop \notin {S_scope, S_length, SYMBOL}

\* the scope key the request c resolved to
RequestScope(c) == ScopeKeys[handles[c.h].label, c.stack]

\* entry i of the log is the first request of its (scope, name) pair
IsFirstRequest(i) ==
  \A j \in 1..(i - 1) : ~(log[j].scope = log[i].scope /\ log[j].name = log[i].name)

\* C1: any two requests of the same (scope, name) pair, however far apart
\* and through whichever handles, returned the same class, and that class is
\* still the one registered under the pair.
C1_IdentityStable ==
  \A i \in 1..Len(log) :
    /\ \A j \in 1..(i - 1) :
         (log[j].scope = log[i].scope /\ log[j].name = log[i].name)
           => log[j].cls = log[i].cls
    /\ log[i].scope \in DOMAIN defs
    /\ MapHas(defs[log[i].scope], log[i].name)
    /\ MapGet(defs[log[i].scope], log[i].name) = log[i].cls

\* a pair is requested again, through another handle, after a request for a
\* different name, and the first class comes back
C1_Witness ==
  /\ Len(log) = 3
  /\ log[3].scope = log[1].scope /\ log[3].name = log[1].name
  /\ log[2].name # log[1].name
  /\ log[3].h # log[1].h
  /\ ret = VClass(log[1].cls)

C3_CollisionStep ==
  (IsKindRequest(call') /\ nreq' # nreq) =>
    IF RequestScope(call') \in DOMAIN defs
         /\ MapHas(defs[RequestScope(call')], call'.prop)
      THEN /\ ret' = VClass(MapGet(defs[RequestScope(call')], call'.prop))
           /\ defs' = defs
           /\ classes' = classes
      ELSE /\ Len(classes') = Len(classes) + 1
           /\ ret' = VClass(Len(classes'))
           /\ classes'[Len(classes')].scopedIndex =
                IF RequestScope(call') \in DOMAIN defs
                  THEN Len(defs[RequestScope(call')])
                  ELSE 0

C3_Collision == [][C3_CollisionStep]_vars

\* the same pair was requested twice and one class exists
C3_Witness ==
  /\ Len(log) = 2
  /\ log[2].scope = log[1].scope /\ log[2].name = log[1].name
  /\ Len(classes) = 1
  /\ IsKindRequest(call)

\* the distinct elements of a sequence, in the order of their first occurrence
RECURSIVE Distinct(_)
Distinct(s) ==
  IF s = <<>> THEN <<>>
  ELSE IF \E i \in 1..(Len(s) - 1) : s[i] = s[Len(s)]
    THEN Distinct(SubSeq(s, 1, Len(s) - 1))
    ELSE Append(Distinct(SubSeq(s, 1, Len(s) - 1)), s[Len(s)])

\* the names requested through handle h, in request order
RECURSIVE RequestedThrough(_, _)
RequestedThrough(h, l) ==
  IF l = <<>> THEN <<>>
  ELSE (IF Head(l).h = h THEN <<Head(l).name>> ELSE <<>>) \o RequestedThrough(h, Tail(l))

\* C4: keys() of every handle is the list of the distinct names requested
\* through it, in first-request order.
C4_HandleKeys ==
  \A h \in 1..Len(handles) :
    MapKeys(handles[h].localScope) = Distinct(RequestedThrough(h, log))

\* a handle lists a name once although it was requested twice through it, and
\* lists a name that another handle had registered before
C4_Witness ==
  /\ Len(log) = 3
  /\ log[1].h = 1 /\ log[2].h = 2 /\ log[3].h = 2
  /\ log[2].name = log[1].name /\ log[2].cls = log[1].cls
  /\ log[3].name = log[2].name
  /\ Len(handles[2].localScope) = 1

\* C5: a property access through one handle leaves every other handle (its
\* key list and its classes) as it was.
C5_IndependentStep ==
  (call'.op = "get" /\ nreq' # nreq) =>
    \A g \in 1..Len(handles) : g # call'.h => handles'[g] = handles[g]

C5_Independent == [][C5_IndependentStep]_vars

\* two handles of the same label, resolving to the same scope, list
\* different names
C5_Witness ==
  /\ Len(handles) = 2
  /\ handles[1].label = handles[2].label
  /\ Len(log) = 2
  /\ log[1].h = 1 /\ log[2].h = 2
  /\ log[1].scope = log[2].scope
  /\ MapKeys(handles[1].localScope) # MapKeys(handles[2].localScope)

\* C6: reading 'scope', 'length' or a symbol-keyed property registers
\* nothing, changes no handle, and returns a value; 'scope' returns the
\* handle of that factory call.
C6_ReservedStep ==
  (call'.op = "get" /\ nreq' # nreq /\ call'.prop \in {S_scope, S_length, SYMBOL}) =>
    /\ defs' = defs
    /\ classes' = classes
    /\ handles' = handles
    /\ log' = log
    /\ ret'.t \in {"scope", "number", "target"}
    /\ (call'.prop = S_scope => ret' = VScope(call'.h))

C6_Reserved == [][C6_ReservedStep]_vars

\* 'scope' was read from a handle that has registered kinds
C6_Witness ==
  /\ call.op = "get"
  /\ call.prop = S_scope
  /\ ret = VScope(call.h)
  /\ handles[call.h].localScope # <<>>

\* ======================= claims: rendering and cast =======================

\* the block with the first occurrence of the placeholder replaced by the
\* value as it stands
PlainSubstitute(block, placeholder, value) ==
  Slice(block, 0, IndexOf(block, placeholder)) \o value
    \o SliceFrom(block, IndexOf(block, placeholder) + Len(placeholder))

\* the kept blocks, each with its placeholder substituted by its value
RECURSIVE KeptBlocks(_, _)
KeptBlocks(items, blocks) ==
  IF blocks = <<>> THEN <<>>
  ELSE (IF FindVar(items, Head(blocks)) = 0
             \/ ~Truthy(items[FindVar(items, Head(blocks))][2])
          THEN <<>>
          ELSE PlainSubstitute(Head(blocks),
                               items[FindVar(items, Head(blocks))][1],
                               items[FindVar(items, Head(blocks))][2]))
       \o KeptBlocks(items, Tail(blocks))

\* C7: rendering returns the concatenation, in template order, of the blocks
\* whose value is present and non-empty, each with its placeholder replaced by
\* that value.
C7_RenderConcatenation ==
  call.op = "render" =>
    ret = VStr(KeptBlocks(
                 TemplateVars(call.args[1], call.args[2], call.args[3], call.args[4]),
                 conf.template))

\* the message a kind named name with label label has when only the name
\* block is rendered
NameBlock(label, name) ==
  IF Truthy(label) THEN <<"[">> \o label \o <<"]", " ">> \o name ELSE name

\* the last operation constructed an instance of a kind from no message
IsEmptyConstruction ==
  /\ call.op = "new"
  /\ call.cls # 0
  /\ call.args \in {<<>>, <<VStr(<<>>)>>}

\* C8: a kind constructed with no argument or with the empty string has the
\* message '[L] Name' when it has the label L, and 'Name' when label and
\* file name are absent.
C8_EmptyMessage ==
  (IsEmptyConstruction
     /\ (Truthy(classes[call.cls].labelName)
           \/ ~Truthy(fileName(call.stack)))) =>
    insts[ret.i].message = NameBlock(classes[call.cls].labelName, classes[call.cls].errorName)

\* C9: cast(s) of a non-empty string s on a kind N with label L returns a
\* new instance of the kind whose message is '[L] N: s'.
C9_CastString ==
  (/\ call.op = "cast"
   /\ call.cls # 0
   /\ Truthy(classes[call.cls].labelName)
   /\ call.args[1].t = "string"
   /\ call.args[1].s # <<>>) =>
    /\ ret.t = "instance"
    /\ insts[ret.i].cls = call.cls
    /\ insts[ret.i].message =
         NameBlock(classes[call.cls].labelName, classes[call.cls].errorName)
           \o <<":", " ">> \o call.args[1].s

\* C10: cast(v) on a kind K of a value v that K.is accepts returns v itself
\* and leaves the heap (v's message, cause and stack included) as it was.
C10_CastIdentityStep ==
  (/\ call'.op = "cast"
   /\ call'.args[1].t = "instance"
   /\ (call'.cls = 0 \/ insts[call'.args[1].i].cls = call'.cls)) =>
    /\ ret' = call'.args[1]
    /\ insts' = insts

C10_CastIdentity == [][C10_CastIdentityStep]_vars

\* an instance of a scoped kind was cast on its own kind while the heap had
\* room for a new instance, and came back itself
C10_Witness ==
  /\ call.op = "cast"
  /\ call.cls # 0
  /\ call.args[1].t = "instance"
  /\ insts[call.args[1].i].cls = call.cls
  /\ ret = call.args[1]
  /\ Len(insts) = 1

\* ======================= claims: cast, cause and copies =======================

\* v is error-like: a native error, an instance, or an object that has a
\* message field
IsErrorLike(v) == IsErrorValue(v) \/ (v.t = "object" /\ v.message # UNDEFINED)

\* the text an instance was built from: the message handed to super()
BuiltFrom(inst) == IF inst.cls = 0 THEN inst.message ELSE inst.originalMessage

\* C11: cast(v) on a kind K of an error-like v that is not of kind K (a
\* native error, an instance of another kind, an object that has a message
\* field) returns a new instance of K built from v's message text whose cause
\* is v itself.
C11_CastErrorLike ==
  (/\ call.op = "cast"
   /\ IsErrorLike(call.args[1])
   /\ ret # call.args[1]) =>
    /\ ret.t = "instance"
    /\ insts[ret.i].cls = call.cls
    /\ BuiltFrom(insts[ret.i]) = MessageOf(call.args[1])
    /\ insts[ret.i].cause = call.args[1]

\* C12: cast(v) never raises and returns a value K.is accepts, whatever the
\* class of v.
C12_CastTotal ==
  call.op = "cast" => (ret.t = "instance" /\ Is(call.cls, ret))

\* the index of the instance the argument of the last from or clone call is,
\* or was taken a snapshot of
SourceOf(c) == IF c.args[1].t = "instance" THEN c.args[1].i ELSE c.args[1].of

\* C13: K.from(x.toObject()) of an instance x of kind K has the message and
\* the name of x, whatever the label, the raw message, the cause and the
\* file name of x.
C13_RoundTripMessage ==
  (/\ call.op = "from"
   /\ call.args[1].t = "snapshot"
   /\ insts[SourceOf(call)].cls = call.cls) =>
    /\ insts[ret.i].message = call.args[1].data.message
    /\ insts[ret.i].name = call.args[1].data.name

\* C14: from(x) and from(x.toObject()), on any kind, build an instance whose
\* cause is the cause of x, absent when x has none.
C14_RoundTripCause ==
  call.op \in {"from", "clone"} =>
    /\ insts[ret.i].cause = dataOf(call.args[1]).cause
    /\ insts[ret.i].cause = insts[SourceOf(call)].cause

\* a snapshot of an instance whose cause is a native error was handed to
\* from on another kind, and the copy has that cause
C14_Witness ==
  /\ call.op = "from"
  /\ call.args[1].t = "snapshot"
  /\ insts[SourceOf(call)].cls # call.cls
  /\ insts[SourceOf(call)].cause = VErr(<<"e">>)
  /\ insts[ret.i].cause = VErr(<<"e">>)

\* C15: from(x) of a live instance x, and x.clone(), leave x as it is and
\* return a new instance of the kind called on (the kind of x for clone),
\* which is the instance the constructor built but for its stack: that is
\* the stack of the snapshot whenever the snapshot has one.
C15_CopyStep ==
  (call'.op \in {"from", "clone"} /\ call'.args[1].t = "instance") =>
    /\ ret'.t = "instance"
    /\ ret' # call'.args[1]
    /\ Len(insts') = Len(insts) + 1
    /\ ret'.i = Len(insts')
    /\ \A j \in 1..Len(insts) : insts'[j] = insts[j]
    /\ insts'[ret'.i].cls = call'.cls
    /\ (call'.op = "clone" => call'.cls = insts[call'.args[1].i].cls)
    /\ (Truthy(insts[call'.args[1].i].stack)
          => insts'[ret'.i].stack = insts[call'.args[1].i].stack)
    /\ [insts'[ret'.i] EXCEPT !.stack = call'.stack]
         = Construct(call'.cls, fromArgs(toObject(insts[call'.args[1].i])), call'.stack)

C15_Copy == [][C15_CopyStep]_vars

\* an instance was cloned under a platform stack other than its own, and the
\* clone has the stack of the instance
C15_Witness ==
  /\ call.op = "clone"
  /\ ret # call.args[1]
  /\ insts[ret.i].cls = insts[call.args[1].i].cls
  /\ insts[ret.i].stack = insts[call.args[1].i].stack
  /\ insts[ret.i].stack # call.stack

\* C16: the clone of an instance whose stack its holder has cleared has no
\* stack either.
C16_CloneClearedStack ==
  (call.op = "clone" /\ insts[call.args[1].i].stack = UNDEFINED) =>
    insts[ret.i].stack = UNDEFINED

\* C17: the clone of a clone, constructed under the platform stack the clone
\* was constructed under, has the message of the clone.
C17_CloneIdempotent ==
  call.op = "clone" =>
    fromData(insts[ret.i].cls, toObject(insts[ret.i]), call.stack).message
      = insts[ret.i].message

\* the text is a base-10 integer: digits, after an optional minus sign
IsBase10Integer(s) ==
  /\ s # <<>>
  /\ IF Head(s) = "-" THEN Len(s) >= 2 /\ AllDigits(Tail(s)) ELSE AllDigits(s)

Base10Value(s) == IF Head(s) = "-" THEN -DecimalVal(Tail(s)) ELSE DecimalVal(s)

\* C18: the code of an instance of a kind is the integer value of the kind's
\* name when the name is a base-10 integer, and absent for any other name.
C18_CodeOfName ==
  \A i \in 1..Len(insts) :
    insts[i].cls # 0 =>
      insts[i].code = IF IsBase10Integer(insts[i].name)
                        THEN VNum(Base10Value(insts[i].name))
                        ELSE VUndef

\* C19: the cause of a constructed instance is its first argument that is a
\* native error or an instance, and absent when it has none; the instances
\* there were stay as they are, so a cause keeps its own cause.
C19_FirstCauseStep ==
  (call'.op = "new" /\ Len(insts') = Len(insts) + 1) =>
    /\ \A k \in 1..Len(call'.args) :
         (IsErrorValue(call'.args[k])
            /\ \A j \in 1..(k - 1) : ~IsErrorValue(call'.args[j]))
           => insts'[ret'.i].cause = call'.args[k]
    /\ (\A k \in 1..Len(call'.args) : ~IsErrorValue(call'.args[k]))
         => insts'[ret'.i].cause = VUndef
    /\ \A j \in 1..Len(insts) : insts'[j] = insts[j]

FrameLinesOf(stack) ==
  FilterFrameLines(Split(IF stack = UNDEFINED THEN <<>> ELSE stack, <<"\n">>))

\* the default scope a stack text stands for: the path of its last frame
\* relative to the module's directory, 'global' when it has no frame line or
\* the line holds no path
DefaultScopeOf(lines) ==
  IF lines = <<>> \/ ~Includes(lines[Len(lines)], <<"/">>) THEN S_global
  ELSE FrameRelativePath(lines[Len(lines)])

\* C21: the scope key is label ':' defaultScope when a label is supplied and
\* defaultScope otherwise, defaultScope being the relative path of the last
\* frame, or 'global' when the stack is missing, malformed or without frame.
C21_ScopeKey ==
  call.op = "scope" =>
    /\ ret.t = "string"
    /\ ret.s = IF Truthy(call.args[1])
                THEN call.args[1] \o <<":">> \o DefaultScopeOf(FrameLinesOf(call.args[2]))
                ELSE DefaultScopeOf(FrameLinesOf(call.args[2]))

\* the segments of a label that differ from the location, in order
RECURSIVE SegmentsBut(_, _)
SegmentsBut(segments, location) ==
  IF segments = <<>> THEN <<>>
  ELSE (IF Head(segments) = location THEN <<>> ELSE <<Head(segments)>>)
         \o SegmentsBut(Tail(segments), location)

\* the location the scope resolution inferred from the stack text
LocationOf(stack) == ScopeNameOf(getStackFrames(IF stack = UNDEFINED THEN <<>> ELSE stack))

\* C22: a label, or a segment of it, that equals the inferred location is
\* not repeated in the scope key: the key is the other segments of the label
\* and the location, joined by ':'.
C22_ScopeKeyDeduplicated ==
  (call.op = "scope" /\ Truthy(call.args[1])) =>
    ret.s = Join(Append(SegmentsBut(Split(call.args[1], <<":">>), LocationOf(call.args[2])),
                        LocationOf(call.args[2])),
                 <<":">>)

EncodedWith(config, args) ==
  IF config.encoding = "basic" \/ (\E k \in 1..Len(args) : JsonThrows(args[k]))
    THEN Join(ItemStrings(args, insts), config.delimiter)
    ELSE Join(EncodeItems(args, insts), <<" ">>)

\* the message of new K(...args) under the configuration config
MessageWith(config, c, args, stack) ==
  IF c = 0 THEN EncodedWith(config, args)
  ELSE Join(RenderBlocks(TemplateVars(classes[c].labelName, EncodedWith(config, args),
                                      classes[c].errorName, fileName(stack)),
                         config.template), <<>>)

\* C24: once setGlobalConfig was called with a partial override, the message
\* of every later construction is rendered with the merged configuration
\* (template, encoding and delimiter, the fields not overridden being kept),
\* and the length of a factory is the maxScopedDefs of the merged
\* configuration.
C24_MergedConfig ==
  /\ call.op = "new" =>
       insts[ret.i].message = MessageWith(globalConfig, call.cls, call.args, call.stack)
  /\ (call.op = "get" /\ call.prop = S_length) =>
       ret = [t |-> "number", n |-> globalConfig.maxScopedDefs]

\* C25: the message of an instance is rendered once, at construction:
\* setGlobalConfig, the request of further kinds, clone and cast leave the
\* message of every instance constructed before as it was.
C25_RenderedOnceStep ==
  \A j \in 1..Len(insts) :
    /\ j \in 1..Len(insts')
    /\ insts'[j].message = insts[j].message

C25_RenderedOnce == [][C25_RenderedOnceStep]_vars

\* an instance of a kind exists and the template at hand is no longer the
\* one its message was rendered with
C25_Witness ==
  /\ call.op = "setGlobalConfig"
  /\ globalConfig.template # conf.template
  /\ \E j \in 1..Len(insts) :
       /\ insts[j].cls # 0
       /\ insts[j].message # Rerendered(insts[j], globalConfig).message

\* C26: K.match(v) returns true when v is an instance of the kind K and
\* false otherwise; K.match(v, fn) returns what fn returns when v is an
\* instance of K, and undefined when it is not.
C26_StaticMatch ==
  call.op = "match" =>
    IF Len(call.args) = 1
      THEN ret = VBool(Is(call.cls, call.args[1]))
      ELSE ret = (IF Is(call.cls, call.args[1]) THEN call.args[2].r ELSE VUndef)

\* v is an instance of a kind that was requested through handle h
OfKindRequestedThrough(h, v) ==
  /\ v.t = "instance"
  /\ \E k \in 1..Len(log) : log[k].h = h /\ log[k].cls = insts[v.i].cls

\* C27: match(v) of a handle returns v itself when v is an instance of a
\* kind requested through that handle, and undefined otherwise.
C27_HandleMatch ==
  call.op = "scope.match" =>
    ret = (IF OfKindRequestedThrough(call.h, call.args[1]) THEN call.args[1] ELSE VUndef)

\* C28: the message of an instance constructed with a non-empty text m as
\* its sole argument contains m as it is.
C28_PayloadVerbatim ==
  (/\ call.op = "new"
   /\ Len(call.args) = 1
   /\ call.args[1].t = "string"
   /\ call.args[1].s # <<>>)
    => Includes(insts[ret.i].message, call.args[1].s)

\* the names of one scope are unique, their indices are distinct, and a
\* class created later has the greater index
RegistryUnique ==
  \A i, j \in 1..Len(log) :
    log[i].scope = log[j].scope =>
      /\ (log[i].name = log[j].name) <=> (log[i].cls = log[j].cls)
      /\ log[i].cls < log[j].cls =>
           classes[log[i].cls].scopedIndex < classes[log[j].cls].scopedIndex

\* C29: when no request comes between the lookup and the insert of another,
\* the names of every scope are unique and their indices distinct and
\* increasing, whatever the order of the requests of the factories; a
\* requester that other requests may come between reaches a state with two
\* classes for one (scope, name) pair or two names of one index.
C29_CriticalSection == ~pending.interleaved => RegistryUnique

\* a request came between the lookup and the insert of another, and one
\* (scope, name) pair has two classes
C29_Witness ==
  /\ pending.interleaved
  /\ \E i, j \in 1..Len(log) :
       /\ log[i].scope = log[j].scope
       /\ log[i].name = log[j].name
       /\ log[i].cls # log[j].cls

\* the (label, location) pairs that resolve to the scope key
BucketPairs(key) ==
  UNION {{<<handles[h].label, LocationOf(stack)>> :
            stack \in {s \in Stacks : ScopeKeys[handles[h].label, s] = key}} :
         h \in 1..Len(handles)}

====
